---- MODULE Spec2Model ----
(***************************************************************************)
(* node-zip-stream: a streaming ZIP writer (src/zipstream.js) and its      *)
(* table-driven CRC-32 (src/unnamed/part_000, required as ./crc32.js).     *)
(*                                                                         *)
(* A 32-bit word is kept as its four bytes, least significant first, so    *)
(* that the unsigned 32-bit arithmetic of the source is exact.  A Buffer   *)
(* is a record: its byte length and, per byte offset written by the        *)
(* source, the little-endian bytes stored there.                           *)
(***************************************************************************)
EXTENDS Integers, Sequences, FiniteSets, TLC

VARIABLES
    bytes,      \* this.bytes
    records,    \* this.records
    cd,         \* this.cd: the central directory file headers concatenated so far
    ended,      \* this.end() has been called
    destroyed,  \* the stream has been destroyed (every later write callback reports an error)
    wq,         \* writes handed to this.write() whose callback has not run yet, oldest first
    out,        \* the chunks pushed to the readable side, in order: what the sink receives
    calls,      \* one frame per addFile()/flush() call, in call order
    reName      \* the filename the caller of RegexSpec passes

vars == <<bytes, records, cd, ended, destroyed, wq, out, calls, reName>>

---------------------------------------------------------------------------
(* Bounds of the model *)

\* calls (addFile or flush) made on one writer
MaxCalls == 3
\* chunks one compressor emits for one file, the final one included
MaxOut == 2

---------------------------------------------------------------------------
(* Bytes and 32-bit words *)

Bit(x, i) == (x \div (2 ^ i)) % 2

\* a ^ b on bytes
Xor8(a, b) ==
    LET f(i) == ((Bit(a, i) + Bit(b, i)) % 2) * (2 ^ i)
    IN  f(0) + f(1) + f(2) + f(3) + f(4) + f(5) + f(6) + f(7)

\* a ^ b on 32-bit words
Xor32(a, b) == [i \in 1..4 |-> Xor8(a[i], b[i])]

\* w >>> 1
Shr1(w) == [i \in 1..4 |-> (w[i] \div 2) + (IF i < 4 THEN (w[i + 1] % 2) * 128 ELSE 0)]

\* w >>> 8
Shr8(w) == <<w[2], w[3], w[4], 0>>

\* ~w >>> 0
Not32(w) == [i \in 1..4 |-> 255 - w[i]]

\* 0xffffffff
ALLONES == <<255, 255, 255, 255>>

\* 0xedb88320
POLY == <<32, 131, 184, 237>>

\* the 32-bit word holding the small number n
Word(n) == <<n % 256, (n \div 256) % 256, (n \div 65536) % 256, (n \div 16777216) % 256>>

\* Buffer.writeUInt32LE(n): the four bytes stored
LE32(n) == Word(n)

\* Buffer.writeUInt16LE(n): the two bytes stored (n must fit, see FitsUInt16)
LE16(n) == <<n % 256, (n \div 256) % 256>>

\* Buffer.writeUInt16LE throws ERR_OUT_OF_RANGE unless 0 <= n <= 65535
FitsUInt16(n) == n >= 0 /\ n <= 65535

\* the number a little-endian byte sequence encodes (used to read fields back)
RECURSIVE FromLE(_)
FromLE(bs) == IF bs = <<>> THEN 0 ELSE bs[1] + 256 * FromLE(Tail(bs))

RECURSIVE Concat(_)
Concat(ss) == IF ss = <<>> THEN <<>> ELSE ss[1] \o Concat(Tail(ss))

RECURSIVE SumLen(_)
SumLen(items) == IF items = <<>> THEN 0 ELSE items[1].len + SumLen(Tail(items))

---------------------------------------------------------------------------
(* crc32.js *)

\* one step of the table construction: CRCTable[i] & 1 ? (CRCTable[i] >>> 1) ^ 0xedb88320 : CRCTable[i] >>> 1
TableStep(w) == IF w[1] % 2 = 1 THEN Xor32(Shr1(w), POLY) ELSE Shr1(w)

RECURSIVE TableIter(_, _)
TableIter(w, z) == IF z = 0 THEN w ELSE TableIter(TableStep(w), z - 1)

CRCTable == [i \in 0..255 |-> TableIter(Word(i), 8)]

\* the loop body: lookupIndex = (crc32 ^ buffer[i]) & 0xff; crc32 = (crc32 >>> 8) ^ CRCTable[lookupIndex]
RECURSIVE crcLoop(_, _)
crcLoop(buffer, crc) ==
    IF buffer = <<>> THEN crc
    ELSE crcLoop(Tail(buffer), Xor32(Shr8(crc), CRCTable[Xor8(crc[1], buffer[1])]))

\* crc32(buffer, seed): returns ~crc32 >>> 0
crc32(buffer, seed) == Not32(crcLoop(buffer, seed))

---------------------------------------------------------------------------
(* Filenames.  A filename is a sequence of characters; a character is a    *)
(* one-character string, except "U+00E9", which stands for the one         *)
(* character e-acute (two bytes in UTF-8), and "a{65490}", which stands    *)
(* for 65490 characters a in a row (to the regular expression, a run of    *)
(* characters of its class).                                               *)

\* the characters the class [^\\?%*:|"<>] of FILENAME_RE excludes
Excluded == {"\\", "?", "%", "*", ":", "|", "\"", "<", ">"}

\* [^\\?%*:|"<>] matches ch
InClass(ch) == ch \notin Excluded

\* [^\\?%*:|"<>]+ matches s[i..j] exactly (i <= j)
Run(s, i, j) == i <= j /\ \A k \in i..j : InClass(s[k])

\* (?:\/[^\\?%*:|"<>]+)*$ matches s from position i to its end
RECURSIVE Groups(_, _)
Groups(s, i) ==
    \/ i = Len(s) + 1
    \/ /\ i <= Len(s)
       /\ s[i] = "/"
       /\ \E j \in (i + 1)..Len(s) : Run(s, i + 1, j) /\ Groups(s, j + 1)

\* FILENAME_RE.test(filename)
FilenameTest(s) == \E j \in 1..Len(s) : Run(s, 1, j) /\ Groups(s, j + 1)

\* the UTF-8 bytes of one character, as runs <<byte, how many times>>
UTF8Char(ch) ==
    CASE ch = "a" -> << <<97, 1>> >>
      [] ch = "b" -> << <<98, 1>> >>
      [] ch = "/" -> << <<47, 1>> >>
      [] ch = "\\" -> << <<92, 1>> >>
      [] ch = "?" -> << <<63, 1>> >>
      [] ch = "%" -> << <<37, 1>> >>
      [] ch = "*" -> << <<42, 1>> >>
      [] ch = ":" -> << <<58, 1>> >>
      [] ch = "|" -> << <<124, 1>> >>
      [] ch = "\"" -> << <<34, 1>> >>
      [] ch = "<" -> << <<60, 1>> >>
      [] ch = ">" -> << <<62, 1>> >>
      [] ch = "U+00E9" -> << <<195, 1>>, <<169, 1>> >>
      [] ch = "a{65490}" -> << <<97, 65490>> >>

\* Buffer.from(filename, "utf-8"): the bytes of the filename, as runs
RECURSIVE BufferFromUTF8(_)
BufferFromUTF8(s) == IF s = <<>> THEN <<>> ELSE UTF8Char(s[1]) \o BufferFromUTF8(Tail(s))

\* filenameBuf.byteLength
RECURSIVE ByteLength(_)
ByteLength(runs) == IF runs = <<>> THEN 0 ELSE runs[1][2] + ByteLength(Tail(runs))

---------------------------------------------------------------------------
(* Buffers written by addFile() and flush() *)

DEFLATE == 8

\* (1 << 3) | (1 << 11)
COMPRESSION_FLAGS == 2056

\* a Buffer: kind, file and seq say which call wrote it and what it is (they are
\* not bytes of the buffer); len is its byteLength; at maps the offsets the source
\* writes to the bytes stored there (every other byte is zero, Buffer.alloc);
\* recs: the central directory file headers a "cd" buffer is the concatenation of
Buf(kind, file, seq, len, at, recs) ==
    [kind |-> kind, file |-> file, seq |-> seq, len |-> len, at |-> at, recs |-> recs]

\* the local file header
LocalFileHeader(file, filename) ==
    LET filenameBuf == BufferFromUTF8(filename)
    IN  Buf("lfh", file, 0, 30 + ByteLength(filenameBuf),
            (0 :> LE32(67324752)) @@ (4 :> LE16(20)) @@ (6 :> LE16(COMPRESSION_FLAGS))
              @@ (8 :> LE16(DEFLATE)) @@ (26 :> LE16(ByteLength(filenameBuf)))
              @@ (30 :> filenameBuf),
            <<>>)

\* a faulty variant of DataDescriptor: the two sizes have changed places
DataDescriptorSwapped(file, fileCRC32, compressedBytes, origBytes) ==
    Buf("dd", file, 0, 12,
        (0 :> fileCRC32) @@ (4 :> LE32(origBytes)) @@ (8 :> LE32(compressedBytes)),
        <<>>)

\* the data descriptor
DataDescriptor(file, fileCRC32, compressedBytes, origBytes) ==
    Buf("dd", file, 0, 12,
        (0 :> fileCRC32) @@ (4 :> LE32(compressedBytes)) @@ (8 :> LE32(origBytes)),
        <<>>)

\* the central directory file header
CentralDirectoryFileHeader(file, filename, fileCRC32, compressedBytes, origBytes, start) ==
    LET filenameBuf == BufferFromUTF8(filename)
    IN  Buf("cdfh", file, 0, 46 + ByteLength(filenameBuf),
            (0 :> LE32(33639248)) @@ (6 :> LE16(20)) @@ (8 :> LE16(COMPRESSION_FLAGS))
              @@ (10 :> LE16(DEFLATE)) @@ (16 :> fileCRC32) @@ (20 :> LE32(compressedBytes))
              @@ (24 :> LE32(origBytes)) @@ (28 :> LE16(ByteLength(filenameBuf)))
              @@ (42 :> LE32(start)) @@ (46 :> filenameBuf),
            <<>>)

\* this.cd as flush() writes it
CentralDirectory(file, cdrecs) == Buf("cd", file, 0, SumLen(cdrecs), <<>>, cdrecs)

\* a faulty variant of EndOfCentralDirectory: the entry count is put into a 20-byte
\* buffer, which has no room for the comment length
EndOfCentralDirectoryShort(file, nrecords, cdLength, start) ==
    Buf("eocd", file, 0, 20,
        (0 :> LE32(101010256)) @@ (10 :> LE16(nrecords)) @@ (12 :> LE16(cdLength))
          @@ (16 :> LE32(start)),
        <<>>)

\* the end-of-central-directory record
EndOfCentralDirectory(file, nrecords, cdLength, start) ==
    Buf("eocd", file, 0, 22,
        (0 :> LE32(101010256)) @@ (10 :> LE16(nrecords)) @@ (12 :> LE16(cdLength))
          @@ (16 :> LE32(start)),
        <<>>)

\* a chunk read from the compressor
CompressedChunk(file, seq, len) == Buf("data", file, seq, len, <<>>, <<>>)

---------------------------------------------------------------------------
(* The Transform stream: this.write(), _transform() and the write callback *)

\* a faulty variant of CountBytes: the chunks are counted, not their bytes
CountChunks(b, buf) == b + 1

\* _transform: if (Buffer.isBuffer(chunk)) this.bytes += chunk.byteLength
CountBytes(b, buf) == b + buf.len

\* _transform: callback(null, chunk) pushes the chunk to the readable side (an
\* empty chunk adds nothing to what the sink reads)
Forward(o, buf) == IF buf.len > 0 THEN Append(o, buf) ELSE o

\* the write at the head of q enters _transform, unless its callback is to report
\* an error (write after end, or the stream is destroyed)
Enter(q, b, o) ==
    IF q = <<>> \/ q[1].fail THEN [wq |-> q, bytes |-> b, out |-> o]
    ELSE IF destroyed THEN [wq |-> [q EXCEPT ![1].fail = TRUE], bytes |-> b, out |-> o]
    ELSE [wq |-> q, bytes |-> CountBytes(b, q[1].buf), out |-> Forward(o, q[1].buf)]

\* promiseWrite(this, buf) by call `owner`: this.write(buf, callback).  With no
\* write in progress _transform runs at once; otherwise the write is buffered
\* behind the writes in progress.  After end() or destroy() the callback will
\* report an error and the chunk goes nowhere.
PromiseWrite(q, b, o, owner, buf) ==
    LET entry == [owner |-> owner, buf |-> buf, fail |-> (ended \/ destroyed)]
    IN  IF q = <<>> THEN Enter(<<entry>>, b, o)
        ELSE [wq |-> Append(q, entry), bytes |-> b, out |-> o]

\* the write at the head of q is over (its callback runs): the next one starts
WriteOver(q, b, o) == Enter(Tail(q), b, o)

---------------------------------------------------------------------------
(* Frames: the local state of one addFile() or flush() call *)

NoCompressor ==
    [created |-> FALSE, pending |-> 0, ended |-> FALSE, outq |-> <<>>, emitted |-> 0,
     finished |-> FALSE, errored |-> FALSE]

\* zlib.createDeflateRaw()
CreateDeflateRaw == [NoCompressor EXCEPT !.created = TRUE]

\* no call is running
Idle == \A c \in 1..Len(calls) : calls[c].status # "running"

Frame(op, filename, chunks, fails) ==
    [op |-> op, filename |-> filename,
     content |-> chunks,        \* the chunks the source will deliver (never changed)
     src |-> chunks,            \* the chunks not yet read
     srcFails |-> fails,        \* the source throws once these chunks are read
     status |-> "running",      \* the call's promise: running, resolved, rejected
     err |-> "none",            \* what it rejected with
     pc |-> "end",              \* the await the body is at: lfh, pipe, dd, cd, eocd; end
     feed |-> "none",           \* filePromise: none, run, done, failed
     drain |-> "none",          \* compressorPromise: none, wait, write, done, failed
     start |-> 0, fileCRC32 |-> ALLONES, compressedBytes |-> 0, origBytes |-> 0,
     comp |-> NoCompressor,
     bytesAtEnd |-> 0,          \* history: this.bytes when the call resolved
     overlap |-> ~Idle]         \* history: the call was made while another was running

\* a faulty variant of JoinReady: only filePromise is awaited
JoinFeedOnly(feed, drain) == feed = "done"

\* await Promise.all([compressorPromise(), filePromise()]) resolves
JoinReady(feed, drain) == feed = "done" /\ drain = "done"

\* the call's promise rejects with e, unless it is settled already
Reject(f, e) ==
    IF f.status = "running" THEN [f EXCEPT !.status = "rejected", !.err = e, !.pc = "end"]
    ELSE f

\* no call has failed after it started writing: the archive is still good
NoMidFailure ==
    \A c \in 1..Len(calls) : calls[c].status = "rejected" => calls[c].err = "InvalidFilename"

\* the caller of the usage comment: it awaits each call before it makes the next,
\* and gives the archive up once a call has failed mid-stream
MayCall == Idle /\ NoMidFailure

Init ==
    /\ bytes = 0
    /\ records = 0
    /\ cd = <<>>
    /\ ended = FALSE
    /\ destroyed = FALSE
    /\ wq = <<>>
    /\ out = <<>>
    /\ calls = <<>>
    /\ reName = <<>>

---------------------------------------------------------------------------
(* addFile(filename, fileStream) up to its first await *)

\* a faulty variant of StartOffset: the offset is taken past the fixed part of the header
StartPastHeader(b) == b + 30

\* const start = this.bytes
StartOffset(b) == b

\* this.records++
CountRecord(r) == r + 1

\* a faulty variant of AddFile: this.records++ comes before the filename test
AddFileCountsFirst(filename, chunks, fails) ==
    /\ Len(calls) < MaxCalls
    /\ UNCHANGED <<cd, ended, destroyed, reName>>
    /\ records' = CountRecord(records)
    /\ LET id == Len(calls) + 1
           f == Frame("addFile", filename, chunks, fails)
       IN  IF ~FilenameTest(filename)
           THEN /\ calls' = Append(calls, Reject(f, "InvalidFilename"))
                /\ UNCHANGED <<bytes, wq, out>>
           ELSE LET w == PromiseWrite(wq, bytes, out, id, LocalFileHeader(id, filename))
                IN  /\ calls' = Append(calls, [f EXCEPT !.start = StartOffset(bytes), !.pc = "lfh"])
                    /\ wq' = w.wq
                    /\ bytes' = w.bytes
                    /\ out' = w.out

AddFile(filename, chunks, fails) ==
    /\ Len(calls) < MaxCalls
    /\ UNCHANGED <<cd, ended, destroyed, reName>>
    /\ LET id == Len(calls) + 1
           f == Frame("addFile", filename, chunks, fails)
       IN  IF ~FilenameTest(filename)
           THEN /\ calls' = Append(calls, Reject(f, "InvalidFilename"))
                /\ UNCHANGED <<bytes, records, wq, out>>
           ELSE LET w == PromiseWrite(wq, bytes, out, id, LocalFileHeader(id, filename))
                IN  /\ records' = CountRecord(records)
                    /\ calls' = Append(calls, [f EXCEPT !.start = StartOffset(bytes), !.pc = "lfh"])
                    /\ wq' = w.wq
                    /\ bytes' = w.bytes
                    /\ out' = w.out

(* flush() up to its first await *)

\* a faulty variant of FlushStart: the offset is taken after the central directory is written
FlushStartAfterCd(b) == b + SumLen(cd)

\* const start = this.bytes
FlushStart(b) == b

Flush ==
    /\ Len(calls) < MaxCalls
    /\ UNCHANGED <<cd, records, ended, destroyed, reName>>
    /\ LET id == Len(calls) + 1
           f == Frame("flush", <<>>, <<>>, FALSE)
           w == PromiseWrite(wq, bytes, out, id, CentralDirectory(id, cd))
       IN  /\ calls' = Append(calls, [f EXCEPT !.start = FlushStart(bytes), !.pc = "cd"])
           /\ wq' = w.wq
           /\ bytes' = w.bytes
           /\ out' = w.out

---------------------------------------------------------------------------
(* The continuations of addFile() and flush() *)

\* after Promise.all: the data descriptor is built and written
Join(c, f, q, b, o) ==
    IF f.status = "running" /\ f.pc = "pipe" /\ JoinReady(f.feed, f.drain)
    THEN LET w == PromiseWrite(q, b, o, c,
                      DataDescriptor(c, f.fileCRC32, f.compressedBytes, f.origBytes))
         IN  [f |-> [f EXCEPT !.pc = "dd"], wq |-> w.wq, bytes |-> w.bytes, out |-> w.out]
    ELSE [f |-> f, wq |-> q, bytes |-> b, out |-> o]

\* the callback of the oldest write reports success, and its promise resolves:
\*   lfh:  the compressor is created and both loops start
\*   data: the drain loop goes on to the compressor's next chunk
\*   dd:   the central directory file header is appended to this.cd; addFile resolves
\*   cd:   the end-of-central-directory record is built and written
\*   eocd: this.end(); flush resolves
AckWrite ==
    /\ wq # <<>>
    /\ ~wq[1].fail
    /\ UNCHANGED <<records, destroyed, reName>>
    /\ LET c == wq[1].owner
           f == calls[c]
           kind == wq[1].buf.kind
           w0 == WriteOver(wq, bytes, out)
       IN  CASE kind = "lfh" ->
                  /\ calls' = [calls EXCEPT ![c] =
                         [f EXCEPT !.pc = "pipe", !.comp = CreateDeflateRaw,
                                   !.drain = "wait", !.feed = "run"]]
                  /\ wq' = w0.wq /\ bytes' = w0.bytes /\ out' = w0.out
                  /\ UNCHANGED <<cd, ended>>
             [] kind = "data" ->
                  /\ calls' = [calls EXCEPT ![c] = [f EXCEPT !.drain = "wait"]]
                  /\ wq' = w0.wq /\ bytes' = w0.bytes /\ out' = w0.out
                  /\ UNCHANGED <<cd, ended>>
             [] kind = "dd" ->
                  /\ cd' = Append(cd, CentralDirectoryFileHeader(c, f.filename, f.fileCRC32,
                                          f.compressedBytes, f.origBytes, f.start))
                  /\ calls' = [calls EXCEPT ![c] = [f EXCEPT !.status = "resolved", !.pc = "end",
                                                              !.bytesAtEnd = w0.bytes]]
                  /\ wq' = w0.wq /\ bytes' = w0.bytes /\ out' = w0.out
                  /\ UNCHANGED ended
             [] kind = "cd" ->
                  IF FitsUInt16(records) /\ FitsUInt16(SumLen(cd))
                  THEN LET w == PromiseWrite(w0.wq, w0.bytes, w0.out, c,
                                    EndOfCentralDirectory(c, records, SumLen(cd), f.start))
                       IN  /\ calls' = [calls EXCEPT ![c] = [f EXCEPT !.pc = "eocd"]]
                           /\ wq' = w.wq /\ bytes' = w.bytes /\ out' = w.out
                           /\ UNCHANGED <<cd, ended>>
                  ELSE /\ calls' = [calls EXCEPT ![c] = Reject(f, "RangeError")]
                       /\ wq' = w0.wq /\ bytes' = w0.bytes /\ out' = w0.out
                       /\ UNCHANGED <<cd, ended>>
             [] kind = "eocd" ->
                  /\ ended' = TRUE
                  /\ calls' = [calls EXCEPT ![c] = [f EXCEPT !.status = "resolved", !.pc = "end",
                                                              !.bytesAtEnd = w0.bytes]]
                  /\ wq' = w0.wq /\ bytes' = w0.bytes /\ out' = w0.out
                  /\ UNCHANGED cd

\* the callback of the oldest write reports an error (the write never entered
\* _transform), and its promise rejects: the drain loop throws if the write was its
\* own; the call rejects unless it has already
FailWrite ==
    /\ wq # <<>>
    /\ wq[1].fail
    /\ UNCHANGED <<records, cd, ended, destroyed, reName>>
    /\ LET c == wq[1].owner
           f == calls[c]
           w0 == WriteOver(wq, bytes, out)
           g == IF wq[1].buf.kind = "data" THEN [f EXCEPT !.drain = "failed"] ELSE f
       IN  /\ calls' = [calls EXCEPT ![c] = Reject(g, "SinkWriteError")]
           /\ wq' = w0.wq /\ bytes' = w0.bytes /\ out' = w0.out

\* the stream is destroyed from outside (its consumer failed)
Destroy ==
    /\ ~destroyed
    /\ calls # <<>>
    /\ destroyed' = TRUE
    /\ UNCHANGED <<bytes, records, cd, ended, wq, out, calls, reName>>

---------------------------------------------------------------------------
(* filePromise: for await (const chunk of fileStream) { ... } compressor.end() *)

FeedChunk(c) ==
    /\ calls[c].feed = "run"
    /\ calls[c].src # <<>>
    /\ LET f == calls[c]
           chunk == Head(f.src)
       IN  calls' = [calls EXCEPT ![c] =
               [f EXCEPT !.src = Tail(f.src),
                         !.origBytes = f.origBytes + Len(chunk),
                         !.fileCRC32 = crc32(chunk, f.fileCRC32),
                         !.comp.pending = f.comp.pending + Len(chunk)]]
    /\ UNCHANGED <<bytes, records, cd, ended, destroyed, wq, out, reName>>

FeedEnd(c) ==
    /\ calls[c].feed = "run"
    /\ calls[c].src = <<>>
    /\ ~calls[c].srcFails
    /\ LET f == [calls[c] EXCEPT !.feed = "done", !.comp.ended = TRUE]
           j == Join(c, f, wq, bytes, out)
       IN  /\ calls' = [calls EXCEPT ![c] = j.f]
           /\ wq' = j.wq /\ bytes' = j.bytes /\ out' = j.out
    /\ UNCHANGED <<records, cd, ended, destroyed, reName>>

\* the content source throws
FeedError(c) ==
    /\ calls[c].feed = "run"
    /\ calls[c].src = <<>>
    /\ calls[c].srcFails
    /\ calls' = [calls EXCEPT ![c] = Reject([calls[c] EXCEPT !.feed = "failed"], "ContentReadError")]
    /\ UNCHANGED <<bytes, records, cd, ended, destroyed, wq, out, reName>>

---------------------------------------------------------------------------
(* The compressor (zlib), as far as the writer can see it: it turns the     *)
(* bytes written to it into chunks when it chooses; a chunk carries the     *)
(* bytes pending since the last one; after end() it emits a final chunk,    *)
(* the pending bytes and the two bytes that close the stream, and ends.     *)

\* the bytes that close a raw deflate stream (an empty input compresses to these)
TrailerLen == 2

CompressorEmit(c) ==
    /\ LET k == calls[c].comp
       IN  /\ k.created /\ ~k.finished /\ ~k.errored
           /\ k.pending > 0
           /\ k.emitted + 1 < MaxOut
           /\ calls' = [calls EXCEPT ![c].comp =
                  [k EXCEPT !.pending = 0, !.emitted = k.emitted + 1,
                            !.outq = Append(k.outq, [seq |-> k.emitted + 1, len |-> k.pending])]]
    /\ UNCHANGED <<bytes, records, cd, ended, destroyed, wq, out, reName>>

CompressorFinish(c) ==
    /\ LET k == calls[c].comp
       IN  /\ k.created /\ ~k.finished /\ ~k.errored
           /\ k.ended
           /\ calls' = [calls EXCEPT ![c].comp =
                  [k EXCEPT !.pending = 0, !.emitted = k.emitted + 1, !.finished = TRUE,
                            !.outq = Append(k.outq, [seq |-> k.emitted + 1,
                                                     len |-> k.pending + TrailerLen])]]
    /\ UNCHANGED <<bytes, records, cd, ended, destroyed, wq, out, reName>>

CompressorError(c) ==
    /\ LET k == calls[c].comp
       IN  /\ k.created /\ ~k.finished /\ ~k.errored
           /\ calls' = [calls EXCEPT ![c].comp = [k EXCEPT !.errored = TRUE, !.outq = <<>>]]
    /\ UNCHANGED <<bytes, records, cd, ended, destroyed, wq, out, reName>>

---------------------------------------------------------------------------
(* compressorPromise: for await (const chunk of compressor) { ... } *)

\* a faulty variant of DrainChunk: the write is not awaited
DrainChunkNoAwait(c) ==
    /\ calls[c].drain = "wait"
    /\ ~calls[c].comp.errored
    /\ calls[c].comp.outq # <<>>
    /\ LET f == calls[c]
           chunk == Head(f.comp.outq)
           w == PromiseWrite(wq, bytes, out, c, CompressedChunk(c, chunk.seq, chunk.len))
       IN  /\ calls' = [calls EXCEPT ![c] =
                  [f EXCEPT !.compressedBytes = f.compressedBytes + chunk.len,
                            !.comp.outq = Tail(f.comp.outq)]]
           /\ wq' = w.wq /\ bytes' = w.bytes /\ out' = w.out
    /\ UNCHANGED <<records, cd, ended, destroyed, reName>>

DrainChunk(c) ==
    /\ calls[c].drain = "wait"
    /\ ~calls[c].comp.errored
    /\ calls[c].comp.outq # <<>>
    /\ LET f == calls[c]
           chunk == Head(f.comp.outq)
           w == PromiseWrite(wq, bytes, out, c, CompressedChunk(c, chunk.seq, chunk.len))
       IN  /\ calls' = [calls EXCEPT ![c] =
                  [f EXCEPT !.compressedBytes = f.compressedBytes + chunk.len,
                            !.comp.outq = Tail(f.comp.outq),
                            !.drain = "write"]]
           /\ wq' = w.wq /\ bytes' = w.bytes /\ out' = w.out
    /\ UNCHANGED <<records, cd, ended, destroyed, reName>>

\* a faulty variant of DrainEnd: the loop ends when no chunk is waiting
DrainEndEarly(c) ==
    /\ calls[c].drain = "wait"
    /\ ~calls[c].comp.errored
    /\ calls[c].comp.outq = <<>>
    /\ LET f == [calls[c] EXCEPT !.drain = "done"]
           j == Join(c, f, wq, bytes, out)
       IN  /\ calls' = [calls EXCEPT ![c] = j.f]
           /\ wq' = j.wq /\ bytes' = j.bytes /\ out' = j.out
    /\ UNCHANGED <<records, cd, ended, destroyed, reName>>

DrainEnd(c) ==
    /\ calls[c].drain = "wait"
    /\ ~calls[c].comp.errored
    /\ calls[c].comp.outq = <<>>
    /\ calls[c].comp.finished
    /\ LET f == [calls[c] EXCEPT !.drain = "done"]
           j == Join(c, f, wq, bytes, out)
       IN  /\ calls' = [calls EXCEPT ![c] = j.f]
           /\ wq' = j.wq /\ bytes' = j.bytes /\ out' = j.out
    /\ UNCHANGED <<records, cd, ended, destroyed, reName>>

\* the compressor emits 'error'
DrainError(c) ==
    /\ calls[c].drain = "wait"
    /\ calls[c].comp.errored
    /\ calls' = [calls EXCEPT ![c] = Reject([calls[c] EXCEPT !.drain = "failed"], "CompressionError")]
    /\ UNCHANGED <<bytes, records, cd, ended, destroyed, wq, out, reName>>

---------------------------------------------------------------------------
(* The callers *)

\* what the callers pass to addFile: a filename, the chunks the content source
\* delivers, and whether the source throws after them
Inputs ==
    { [filename |-> <<"a">>, chunks |-> <<>>, fails |-> FALSE],
      [filename |-> <<"U+00E9", "/", "b">>, chunks |-> <<<<97, 98>>>>, fails |-> FALSE],
      [filename |-> <<"a">>, chunks |-> <<<<97>>, <<98>>>>, fails |-> FALSE],
      [filename |-> <<"a">>, chunks |-> <<<<97>>>>, fails |-> TRUE],
      [filename |-> <<"a", "?">>, chunks |-> <<<<97>>>>, fails |-> FALSE] }

Next ==
    \/ MayCall /\ \E i \in Inputs : AddFile(i.filename, i.chunks, i.fails)
    \/ MayCall /\ Flush
    \/ AckWrite
    \/ FailWrite
    \/ Destroy
    \/ \E c \in 1..Len(calls) : FeedChunk(c)
    \/ \E c \in 1..Len(calls) : FeedEnd(c)
    \/ \E c \in 1..Len(calls) : FeedError(c)
    \/ \E c \in 1..Len(calls) : CompressorEmit(c)
    \/ \E c \in 1..Len(calls) : CompressorFinish(c)
    \/ \E c \in 1..Len(calls) : CompressorError(c)
    \/ \E c \in 1..Len(calls) : DrainChunk(c)
    \/ \E c \in 1..Len(calls) : DrainEnd(c)
    \/ \E c \in 1..Len(calls) : DrainError(c)

Spec == Init /\ [][Next]_vars

---------------------------------------------------------------------------
(* A caller that makes one addFile call, with a filename of up to MaxNameLen *)
(* characters: what FILENAME_RE lets through                                 *)

MaxNameLen == 3

NameChars == Excluded \cup {"a", "/"}

TestNames == UNION { [1..n -> NameChars] : n \in 0..MaxNameLen }

RegexInit ==
    /\ bytes = 0 /\ records = 0 /\ cd = <<>> /\ ended = FALSE /\ destroyed = FALSE
    /\ wq = <<>> /\ out = <<>> /\ calls = <<>>
    /\ reName \in TestNames

RegexNext == calls = <<>> /\ AddFile(reName, <<>>, FALSE)

RegexSpec == RegexInit /\ [][RegexNext]_vars

---------------------------------------------------------------------------
(* What the claims speak of *)

CallIds == 1..Len(calls)

AddFileCalls == {c \in CallIds : calls[c].op = "addFile"}

\* the addFile calls that completed successfully
Added == {c \in AddFileCalls : calls[c].status = "resolved"}

\* the calls that failed mid-stream
MidStreamErrors == {"ContentReadError", "CompressionError", "SinkWriteError"}

\* the position in the output of the first byte of out[i]
Pos(i) == SumLen(SubSeq(out, 1, i - 1))

\* the places of call c's buffers of one kind in the output
Places(c, kind) == {i \in 1..Len(out) : out[i].file = c /\ out[i].kind = kind}

\* the filename's length in bytes
NameBytes(c) == ByteLength(BufferFromUTF8(calls[c].filename))

\* the number of compressed bytes of file c that reached the sink
DataBytes(c) == SumLen(SelectSeq(out, LAMBDA b : b.file = c /\ b.kind = "data"))

\* the standard CRC-32 (reflected, polynomial 0xedb88320), bit by bit and table-free:
\* seeded with all ones, inverted once at the end
RECURSIVE StdBits(_, _)
StdBits(w, n) ==
    IF n = 0 THEN w
    ELSE StdBits(IF w[1] % 2 = 1 THEN Xor32(Shr1(w), POLY) ELSE Shr1(w), n - 1)

RECURSIVE StdCrcRun(_, _)
StdCrcRun(data, w) ==
    IF data = <<>> THEN w
    ELSE StdCrcRun(Tail(data), StdBits([w EXCEPT ![1] = Xor8(w[1], data[1])], 8))

StdCRC32(data) == Not32(StdCrcRun(data, ALLONES))

---------------------------------------------------------------------------
(* C1 *)

\* C1: for every content, however chunked, the CRC-32 in the file's data descriptor
\* (offset 0) and in its central directory record (offset 16) is the standard
\* CRC-32 of the concatenated content.
C1_CrcIsStandard ==
    /\ \A i \in 1..Len(out) :
           out[i].kind = "dd" =>
               out[i].at[0] = StdCRC32(Concat(calls[out[i].file].content))
    /\ \A i \in 1..Len(cd) :
           cd[i].at[16] = StdCRC32(Concat(calls[cd[i].file].content))

---------------------------------------------------------------------------
(* C5 *)

\* C5: whenever no call is running, fileCount is the number of addFile calls that
\* completed successfully, and the number of records in centralDirectory; so the
\* entry count flush writes (offset 10 of the end-of-central-directory record) is
\* the number of successful addFile calls.
C5_CountIsSuccesses ==
    /\ Idle => records = Cardinality(Added) /\ records = Len(cd)
    /\ \A i \in 1..Len(out) :
           out[i].kind = "eocd" => FromLE(out[i].at[10]) = Cardinality(Added)

---------------------------------------------------------------------------
(* C6 *)

\* what the filename rule rejects: the empty name, a name with one of the excluded
\* characters, a name with an empty segment between slashes
HasEmptySegment(s) ==
    /\ s # <<>>
    /\ \/ s[1] = "/"
       \/ s[Len(s)] = "/"
       \/ \E k \in 1..(Len(s) - 1) : s[k] = "/" /\ s[k + 1] = "/"

RuleRejects(s) ==
    \/ s = <<>>
    \/ \E k \in 1..Len(s) : s[k] \in Excluded
    \/ HasEmptySegment(s)

\* C6: addFile rejects a filename exactly when it is empty, holds an excluded
\* character or has an empty path segment.
C6_RejectsExactlyUnsafeNames ==
    \A c \in AddFileCalls :
        (calls[c].status = "rejected" /\ calls[c].err = "InvalidFilename")
            <=> RuleRejects(calls[c].filename)

---------------------------------------------------------------------------
(* C2 *)

FlushCalls == {c \in CallIds : calls[c].op = "flush"}

Finalized == \E c \in FlushCalls : calls[c].status = "resolved"

\* buffer b may come right after buffer a in the output
Follows(a, b) ==
    CASE a.kind = "lfh" -> b.kind = "data" /\ b.file = a.file /\ b.seq = 1
      [] a.kind = "data" -> /\ b.file = a.file
                            /\ (b.kind = "data" /\ b.seq = a.seq + 1) \/ b.kind = "dd"
      [] a.kind = "dd" -> (b.kind = "lfh" /\ b.file > a.file) \/ b.kind = "cd"
      [] a.kind = "cd" -> b.kind = "eocd" /\ b.file = a.file
      [] a.kind = "eocd" -> FALSE

\* the files whose data descriptor is in the output, in output order
FilesDescribed ==
    LET dds == SelectSeq(out, LAMBDA b : b.kind = "dd")
    IN  [i \in 1..Len(dds) |-> dds[i].file]

\* the output is, so far, header, data in compressor order, descriptor, file after
\* file in call order, then the central directory of exactly these files, then the
\* end-of-central-directory record
InOrder ==
    /\ out # <<>> => out[1].kind \in {"lfh", "eocd"}
    /\ \A i \in 1..(Len(out) - 1) : Follows(out[i], out[i + 1])
    /\ \A i \in 1..Len(out) :
           out[i].kind = "cd" =>
               [k \in 1..Len(out[i].recs) |-> out[i].recs[k].file] = FilesDescribed

\* whatever a settled call had to write is in the output
Complete ==
    /\ \A c \in Added :
           /\ Cardinality(Places(c, "lfh")) = 1
           /\ Cardinality(Places(c, "dd")) = 1
           /\ Cardinality(Places(c, "data")) = calls[c].comp.emitted
           /\ calls[c].comp.finished
    /\ \A c \in FlushCalls :
           calls[c].status = "resolved" =>
               /\ Cardinality(Places(c, "eocd")) = 1
               /\ cd # <<>> => Cardinality(Places(c, "cd")) = 1

\* C2: with each call awaited before the next, and while no call has failed
\* mid-stream, the output is in the order header, compressed chunks, data
\* descriptor per file, then central directory, then end-of-central-directory
\* record; and no write is issued before the one before it is acknowledged (at
\* most one write is without its callback).
C2_OutputOrder == NoMidFailure => InOrder /\ Complete /\ Len(wq) <= 1

C2_Witness ==
    /\ NoMidFailure
    /\ Finalized
    /\ Cardinality(Added) = 2
    /\ \E i \in 1..Len(out) : out[i].kind = "data" /\ out[i].seq = 2
    /\ out[Len(out)].kind = "eocd"

---------------------------------------------------------------------------
(* C3 *)

\* record i's startOffset field
StartOf(i) == FromLE(cd[i].at[42])

\* C3: centralDirectory holds one record per successfully added file, in the order
\* added; record i's startOffset (offset 42) is the output position of its file's
\* local header; startOffsets strictly increase, and that of record i+1 is
\* this.bytes as it was when file i's data descriptor write completed.
C3_StartOffsets ==
    /\ Len(cd) = Cardinality(Added)
    /\ \A i \in 1..Len(cd) :
           /\ cd[i].file \in Added
           /\ \E j \in Places(cd[i].file, "lfh") : Pos(j) = StartOf(i)
    /\ \A i \in 1..(Len(cd) - 1) :
           /\ cd[i].file < cd[i + 1].file
           /\ StartOf(i) < StartOf(i + 1)
           /\ StartOf(i + 1) = calls[cd[i].file].bytesAtEnd

C3_Witness ==
    /\ Len(cd) = 2
    /\ cd[1].len # cd[2].len
    /\ StartOf(2) > 31 + 12

---------------------------------------------------------------------------
(* C4 *)

\* what one added file takes in the output: header, compressed data, descriptor
FileBytes(c) == (30 + NameBytes(c)) + DataBytes(c) + 12

RECURSIVE SumFileBytes(_)
SumFileBytes(S) ==
    IF S = {} THEN 0
    ELSE LET c == CHOOSE x \in S : TRUE IN FileBytes(c) + SumFileBytes(S \ {c})

\* the last call made is an addFile, and it has completed
AddFileJustCompleted ==
    /\ calls # <<>>
    /\ calls[Len(calls)].op = "addFile"
    /\ calls[Len(calls)].status = "resolved"

\* C4: this.bytes never decreases; it is the number of bytes forwarded to the
\* sink (every byte counted once); and when an addFile call has just completed
\* it is the sum, over the files added, of (30 + filename bytes) + compressed
\* bytes + 12.
C4_BytesAccounted ==
    /\ [](bytes = SumLen(out))
    /\ [](AddFileJustCompleted => bytes = SumFileBytes(Added))
    /\ [][bytes' >= bytes]_vars

C4_Witness ==
    /\ AddFileJustCompleted
    /\ Cardinality(Added) = 2
    /\ \E c \in Added : NameBytes(c) = 4 /\ DataBytes(c) > 2

---------------------------------------------------------------------------
(* C7 *)

\* the addFile calls that failed on their filename
BadNameCalls == {c \in AddFileCalls : calls[c].err = "InvalidFilename"}

\* this step is an addFile call that fails on its filename
BadNameStep ==
    /\ Len(calls') = Len(calls) + 1
    /\ calls'[Len(calls')].err = "InvalidFilename"

\* the finished archive lists exactly the files added: the entry count of the
\* end-of-central-directory record, the records of the central directory and the
\* local headers in the output agree, and every record points at its header
GoodArchive ==
    /\ InOrder /\ Complete
    /\ out # <<>> /\ out[Len(out)].kind = "eocd"
    /\ FromLE(out[Len(out)].at[10]) = Cardinality(Added)
    /\ Cardinality({i \in 1..Len(out) : out[i].kind = "lfh"}) = Cardinality(Added)
    /\ Len(cd) = Cardinality(Added)
    /\ \A i \in 1..Len(cd) : \E j \in Places(cd[i].file, "lfh") : Pos(j) = StartOf(i)

\* C7: an addFile call that fails on its filename fails at once, writes nothing
\* and leaves this.bytes, this.records and this.cd as they were; its content
\* source is never read; and after it a valid addFile and flush still give a
\* good archive.
C7_BadNameNoEffect ==
    /\ [][BadNameStep =>
            /\ calls'[Len(calls')].status = "rejected"
            /\ UNCHANGED <<bytes, records, cd, out, wq, ended>>]_vars
    /\ [](\A c \in BadNameCalls :
            /\ calls[c].src = calls[c].content
            /\ calls[c].feed = "none"
            /\ \A i \in 1..Len(out) : out[i].file # c)
    /\ [](BadNameCalls # {} /\ Finalized /\ NoMidFailure => GoodArchive)

C7_Witness ==
    /\ \E c \in BadNameCalls : \E d \in Added : c < d
    /\ Finalized
    /\ NoMidFailure

---------------------------------------------------------------------------
(* C8 *)

\* C8: when the content source, the compressor or a write fails during an addFile
\* call, the call fails, with the error of the part that failed; no data
\* descriptor of that file reaches the output and no record of it is appended to
\* this.cd.
C8_MidStreamFailure ==
    \A c \in AddFileCalls :
        /\ calls[c].feed = "failed" \/ calls[c].drain = "failed" =>
               calls[c].status = "rejected" /\ calls[c].err \in MidStreamErrors
        /\ calls[c].status = "rejected" /\ calls[c].err \in MidStreamErrors =>
               /\ calls[c].err = "ContentReadError" =>
                      calls[c].feed = "failed" /\ calls[c].srcFails
               /\ calls[c].err = "CompressionError" =>
                      calls[c].drain = "failed" /\ calls[c].comp.errored
               /\ calls[c].err = "SinkWriteError" => ended \/ destroyed
               /\ Places(c, "dd") = {}
               /\ \A i \in 1..Len(cd) : cd[i].file # c

C8_Witness ==
    /\ \E c \in AddFileCalls :
           /\ calls[c].err = "CompressionError"
           /\ calls[c].feed = "done"
           /\ Places(c, "data") # {}

---------------------------------------------------------------------------
(* C9 *)

\* C9: once flush has completed, no step changes this.bytes, this.records,
\* this.cd or the output; no later call completes; the end-of-central-directory
\* record is written at most once.
C9_NothingAfterFinalize ==
    /\ [][Finalized =>
            UNCHANGED <<bytes, records, cd, out>>]_vars
    /\ [](\A c \in FlushCalls, d \in CallIds :
            calls[c].status = "resolved" /\ d > c => calls[d].status # "resolved")
    /\ [](Cardinality({i \in 1..Len(out) : out[i].kind = "eocd"}) <= 1)

---------------------------------------------------------------------------
(* C10 *)

\* C10: the central-directory start offset in the end-of-central-directory record
\* (offset 16) is the output position of the first central directory byte, which
\* is the position just past the last file's data descriptor (and the position of
\* the record itself when the central directory is empty).
C10_CdOffset ==
    \A i \in 1..Len(out) :
        out[i].kind = "eocd" =>
            IF i > 1 /\ out[i - 1].kind = "cd"
            THEN /\ FromLE(out[i].at[16]) = Pos(i - 1)
                 /\ i > 2 /\ out[i - 2].kind = "dd"
                 /\ FromLE(out[i].at[16]) = Pos(i - 2) + out[i - 2].len
            ELSE /\ cd = <<>>
                 /\ FromLE(out[i].at[16]) = Pos(i)

C10_Witness ==
    \E i \in 1..Len(out) :
        /\ out[i].kind = "eocd"
        /\ i > 1 /\ out[i - 1].kind = "cd"
        /\ Cardinality(Added) = 2

---------------------------------------------------------------------------
(* C11 *)

\* a caller like that of Spec, whose filenames may be long: one filename of 65490
\* bytes makes a central directory of 46 + 65490 = 65536 bytes
LongInputs ==
    { [filename |-> <<"a{65490}">>, chunks |-> <<>>, fails |-> FALSE],
      [filename |-> <<"a">>, chunks |-> <<<<97>>>>, fails |-> FALSE],
      [filename |-> <<"a">>, chunks |-> <<<<97>>>>, fails |-> TRUE] }

LongNext ==
    \/ MayCall /\ \E i \in LongInputs : AddFile(i.filename, i.chunks, i.fails)
    \/ MayCall /\ Flush
    \/ AckWrite
    \/ FailWrite
    \/ Destroy
    \/ \E c \in 1..Len(calls) : FeedChunk(c)
    \/ \E c \in 1..Len(calls) : FeedEnd(c)
    \/ \E c \in 1..Len(calls) : FeedError(c)
    \/ \E c \in 1..Len(calls) : CompressorEmit(c)
    \/ \E c \in 1..Len(calls) : CompressorFinish(c)
    \/ \E c \in 1..Len(calls) : CompressorError(c)
    \/ \E c \in 1..Len(calls) : DrainChunk(c)
    \/ \E c \in 1..Len(calls) : DrainEnd(c)
    \/ \E c \in 1..Len(calls) : DrainError(c)

LongSpec == Init /\ [][LongNext]_vars

RECURSIVE SumRecordBytes(_)
SumRecordBytes(S) ==
    IF S = {} THEN 0
    ELSE LET c == CHOOSE x \in S : TRUE IN (46 + NameBytes(c)) + SumRecordBytes(S \ {c})

\* C11: flush never fails on the size of the archive (the model's archives are all
\* within the format's limits), and the central directory size it records (offset
\* 12 of the end-of-central-directory record, a four-byte field) is the sum over
\* the added files of 46 + filename bytes, also when that sum exceeds 65535.
C11_CdSizeRecorded ==
    /\ \A c \in FlushCalls : calls[c].err # "RangeError"
    /\ \A i \in 1..Len(out) :
           out[i].kind = "eocd" =>
               FromLE(out[i].at[12] \o <<0, 0>>) = SumRecordBytes(Added)

---------------------------------------------------------------------------
(* C12 *)

\* a caller like that of Spec, which adds the content "ab" under one filename with
\* different chunk boundaries: as one chunk, as two chunks, with an empty chunk
ChunkInputs ==
    { [filename |-> <<"a">>, chunks |-> <<<<97, 98>>>>, fails |-> FALSE],
      [filename |-> <<"a">>, chunks |-> <<<<97>>, <<98>>>>, fails |-> FALSE],
      [filename |-> <<"a">>, chunks |-> <<<<97, 98>>, <<>>>>, fails |-> FALSE],
      [filename |-> <<"a">>, chunks |-> <<<<97>>>>, fails |-> TRUE] }

ChunkNext ==
    \/ MayCall /\ \E i \in ChunkInputs : AddFile(i.filename, i.chunks, i.fails)
    \/ MayCall /\ Flush
    \/ AckWrite
    \/ FailWrite
    \/ Destroy
    \/ \E c \in 1..Len(calls) : FeedChunk(c)
    \/ \E c \in 1..Len(calls) : FeedEnd(c)
    \/ \E c \in 1..Len(calls) : FeedError(c)
    \/ \E c \in 1..Len(calls) : CompressorEmit(c)
    \/ \E c \in 1..Len(calls) : CompressorFinish(c)
    \/ \E c \in 1..Len(calls) : CompressorError(c)
    \/ \E c \in 1..Len(calls) : DrainChunk(c)
    \/ \E c \in 1..Len(calls) : DrainEnd(c)
    \/ \E c \in 1..Len(calls) : DrainError(c)

ChunkSpec == Init /\ [][ChunkNext]_vars

\* calls c and d were given the same filename and the same content bytes
SameFile(c, d) ==
    /\ calls[c].filename = calls[d].filename
    /\ Concat(calls[c].content) = Concat(calls[d].content)

\* C12: two files of the same filename and the same content bytes, however the
\* content was split into chunks, carry the same CRC-32 and the same original size
\* in their data descriptors (offsets 0 and 8) and in their central directory
\* records (offsets 16 and 24).
C12_ChunkingIrrelevant ==
    /\ \A i, j \in 1..Len(out) :
           (out[i].kind = "dd" /\ out[j].kind = "dd" /\ SameFile(out[i].file, out[j].file)) =>
               /\ out[i].at[0] = out[j].at[0]
               /\ out[i].at[8] = out[j].at[8]
    /\ \A i, j \in 1..Len(cd) :
           SameFile(cd[i].file, cd[j].file) =>
               /\ cd[i].at[16] = cd[j].at[16]
               /\ cd[i].at[24] = cd[j].at[24]

---------------------------------------------------------------------------
(* C13 *)

\* flush call c was made on a writer to which no file had been added: every call
\* before it was an addFile refused for its filename
OnEmptyWriter(c) ==
    /\ calls[c].op = "flush"
    /\ \A d \in 1..(c - 1) : calls[d].err = "InvalidFilename"

\* C13: flush on a writer to which no file was added fails only if the stream was
\* destroyed under it, and once it has resolved the output is exactly one
\* end-of-central-directory record of 22 bytes (signature 0x06054b50, entry count
\* 0 at offset 10, central directory size 0 at offset 12, start offset 0 at offset
\* 16) and the stream has been ended.
C13_EmptyArchive ==
    \A c \in CallIds :
        OnEmptyWriter(c) =>
            /\ calls[c].status = "rejected" => destroyed
            /\ calls[c].status = "resolved" =>
                   /\ Len(out) = 1
                   /\ out[1].kind = "eocd" /\ out[1].len = 22
                   /\ out[1].at[0] = LE32(101010256)
                   /\ out[1].at[10] = LE16(0)
                   /\ out[1].at[12] = LE16(0)
                   /\ out[1].at[16] = LE32(0)
                   /\ bytes = 22
                   /\ ended

C13_Witness ==
    \E c \in CallIds :
        /\ OnEmptyWriter(c)
        /\ calls[c].status = "resolved"
        /\ Len(out) = 1 /\ ended

---------------------------------------------------------------------------
(* C14 *)

\* the calls whose data descriptor has been handed to this.write()
DescriptorIssued ==
    {c \in AddFileCalls :
        \/ Places(c, "dd") # {}
        \/ \E k \in 1..Len(wq) : wq[k].owner = c /\ wq[k].buf.kind = "dd"}

\* C14: a data descriptor is written only when the feed loop and the drain loop
\* have both completed (the source is read to its end, the compressor has ended
\* and nothing of its output is left); in the output its compressed size (offset
\* 4) is the number of the file's compressed bytes in the output, now and ever
\* after, and its original size (offset 8) the number of content bytes of the
\* source; the file's central directory record carries the descriptor's CRC-32,
\* compressed size and original size at offsets 16, 20 and 24.
C14_DescriptorFinal ==
    /\ \A c \in DescriptorIssued :
           /\ calls[c].feed = "done" /\ calls[c].drain = "done"
           /\ calls[c].src = <<>>
           /\ calls[c].comp.finished /\ calls[c].comp.outq = <<>>
    /\ \A i \in 1..Len(out) :
           out[i].kind = "dd" =>
               /\ FromLE(out[i].at[4]) = DataBytes(out[i].file)
               /\ FromLE(out[i].at[8]) = Len(Concat(calls[out[i].file].content))
               /\ \A j \in Places(out[i].file, "data") : j < i
    /\ \A k \in 1..Len(cd) :
           \E i \in Places(cd[k].file, "dd") :
               /\ cd[k].at[16] = out[i].at[0]
               /\ cd[k].at[20] = out[i].at[4]
               /\ cd[k].at[24] = out[i].at[8]

C14_Witness ==
    \E k \in 1..Len(cd) :
        /\ Cardinality(Places(cd[k].file, "data")) = 2
        /\ Places(cd[k].file, "dd") # {}
        /\ Len(calls[cd[k].file].content) = 2

---------------------------------------------------------------------------
(* C15 *)

\* the chunks call c has read from its content source
ChunksRead(c) == SubSeq(calls[c].content, 1, Len(calls[c].content) - Len(calls[c].src))

\* the checksum accumulator after the chunks were fed to crc32() one by one
RECURSIVE CrcFold(_, _)
CrcFold(chunks, seed) ==
    IF chunks = <<>> THEN seed ELSE CrcFold(Tail(chunks), crc32(chunks[1], seed))

\* the bytes the compressor of call c has put out for the drain loop, and what
\* the loop has taken of them
CompressorOutput(c) == SumLen(calls[c].comp.outq) + calls[c].compressedBytes

\* the calls whose pipeline has started
Piped == {c \in AddFileCalls : calls[c].comp.created}

\* C15: within one addFile call the source is read once, front to back (what is
\* left of it is always a suffix of the content, and only ever loses its first
\* chunk); the chunks read have been fed in their order to the checksum and, byte
\* for byte, to the compressor; compressor.end() is called once, in the step that
\* finds the source exhausted; the drain loop is done only when the compressor has
\* ended and nothing of its output is left; so when the data descriptor is in the
\* output, all the compressed bytes of the whole content are in the output too.
C15_PipelineOrder ==
    /\ [](\A c \in Piped :
              /\ Len(calls[c].src) <= Len(calls[c].content)
              /\ calls[c].src = SubSeq(calls[c].content,
                                       Len(calls[c].content) - Len(calls[c].src) + 1,
                                       Len(calls[c].content))
              /\ calls[c].fileCRC32 = CrcFold(ChunksRead(c), ALLONES)
              /\ calls[c].origBytes = Len(Concat(ChunksRead(c)))
              /\ ~calls[c].comp.errored =>
                     calls[c].comp.pending + CompressorOutput(c)
                         = Len(Concat(ChunksRead(c)))
                             + (IF calls[c].comp.finished THEN TrailerLen ELSE 0)
              /\ calls[c].comp.ended => calls[c].src = <<>> /\ calls[c].feed = "done"
              /\ calls[c].drain = "done" =>
                     calls[c].comp.finished /\ calls[c].comp.outq = <<>>)
    /\ [](\A i \in 1..Len(out) :
              out[i].kind = "dd" =>
                  DataBytes(out[i].file)
                      = Len(Concat(calls[out[i].file].content)) + TrailerLen)
    /\ [][\A c \in 1..Len(calls) :
              /\ calls'[c].src = calls[c].src \/ calls'[c].src = Tail(calls[c].src)
              /\ (calls'[c].comp.ended /\ ~calls[c].comp.ended) =>
                     calls[c].src = <<>> /\ calls[c].feed = "run" /\ calls'[c].feed = "done"
              /\ calls[c].feed = "done" => calls'[c].feed = "done"]_vars

C15_Witness ==
    \E i \in 1..Len(out) :
        /\ out[i].kind = "dd"
        /\ Len(calls[out[i].file].content) = 2
        /\ DataBytes(out[i].file) = 4
        /\ calls[out[i].file].comp.emitted = 2

---------------------------------------------------------------------------
(* C16 *)

\* the read-ahead a feed loop that suspends on backpressure would keep to, in
\* bytes of content (the compressor's highWaterMark)
ReadAheadLimit == 1

\* a caller like that of Spec, whose content is one byte longer than the limit and
\* comes in chunks of one byte
BackInputs ==
    { [filename |-> <<"a">>, chunks |-> [k \in 1..(ReadAheadLimit + 1) |-> <<97>>],
       fails |-> FALSE],
      [filename |-> <<"a">>, chunks |-> [k \in 1..(ReadAheadLimit + 1) |-> <<97>>],
       fails |-> TRUE] }

BackNext ==
    \/ MayCall /\ \E i \in BackInputs : AddFile(i.filename, i.chunks, i.fails)
    \/ MayCall /\ Flush
    \/ AckWrite
    \/ FailWrite
    \/ Destroy
    \/ \E c \in 1..Len(calls) : FeedChunk(c)
    \/ \E c \in 1..Len(calls) : FeedEnd(c)
    \/ \E c \in 1..Len(calls) : FeedError(c)
    \/ \E c \in 1..Len(calls) : CompressorEmit(c)
    \/ \E c \in 1..Len(calls) : CompressorFinish(c)
    \/ \E c \in 1..Len(calls) : CompressorError(c)
    \/ \E c \in 1..Len(calls) : DrainChunk(c)
    \/ \E c \in 1..Len(calls) : DrainEnd(c)
    \/ \E c \in 1..Len(calls) : DrainError(c)

BackSpec == Init /\ [][BackNext]_vars

\* the content bytes call c has read whose compressed output has not reached the
\* sink (the compressor puts out as many bytes as it takes in, and the closing
\* bytes with the last of them)
ReadAhead(c) ==
    LET read == Len(Concat(ChunksRead(c)))
    IN  IF DataBytes(c) >= read THEN 0 ELSE read - DataBytes(c)

\* at most one write to the sink is issued and not yet acknowledged
OneWriteInFlight == Len(wq) <= 1

\* C16: at most one write to the sink is issued and not yet acknowledged, and
\* within one addFile call the content read from the source whose compressed
\* output the sink has not taken stays within a fixed limit, whatever the order in
\* which source, compressor and sink take their steps.
C16_Backpressure ==
    /\ OneWriteInFlight
    /\ \A c \in Piped : ReadAhead(c) <= ReadAheadLimit

---------------------------------------------------------------------------
(* C17 *)

\* the calls made by the caller that does not wait
ConcCalls == 2

\* what a caller passes that does not wait for its calls
ConcInputs == { [filename |-> <<"a">>, chunks |-> <<<<97>>>>, fails |-> FALSE] }

\* a caller that may make a call while earlier calls are running (it too gives the
\* archive up once a call has failed), with a source, a compressor and a consumer
\* that do not fail: a write fails here only when it comes after end()
ConcNext ==
    \/ /\ NoMidFailure /\ Len(calls) < ConcCalls
       /\ \E i \in ConcInputs : AddFile(i.filename, i.chunks, i.fails)
    \/ NoMidFailure /\ Len(calls) < ConcCalls /\ Flush
    \/ AckWrite
    \/ FailWrite
    \/ \E c \in 1..Len(calls) : FeedChunk(c)
    \/ \E c \in 1..Len(calls) : FeedEnd(c)
    \/ \E c \in 1..Len(calls) : CompressorEmit(c)
    \/ \E c \in 1..Len(calls) : CompressorFinish(c)
    \/ \E c \in 1..Len(calls) : DrainChunk(c)
    \/ \E c \in 1..Len(calls) : DrainEnd(c)

ConcSpec == Init /\ [][ConcNext]_vars

\* the addFile calls that got past the filename test
Started == {c \in AddFileCalls : calls[c].err # "InvalidFilename"}

\* the places in the output of the header, data and descriptor of file c
FilePlaces(c) == Places(c, "lfh") \cup Places(c, "data") \cup Places(c, "dd")

\* the bytes of each file are one range of the output; the startOffset of every
\* record is the position of its file's header; the central directory (or, when it
\* is empty, the end record) comes after the descriptor of every file started
\* before its flush
Serialized ==
    /\ \A c \in Started :
           \A i, k \in FilePlaces(c) :
               \A j \in i..k : out[j].file = c
    /\ \A r \in 1..Len(cd) :
           \E j \in Places(cd[r].file, "lfh") : Pos(j) = StartOf(r)
    /\ \A i \in 1..Len(out) :
           out[i].kind \in {"cd", "eocd"} =>
               \A c \in Started :
                   c < out[i].file => \E j \in Places(c, "dd") : j < i

\* no call was made while another was running
Sequenced == \A c \in CallIds : ~calls[c].overlap

\* C17 as stated: while no call has failed mid-stream, the output is serialized,
\* whether or not calls were made while earlier calls were running.
C17_Serialized == NoMidFailure => Serialized

\* C17 amended: while no call has failed mid-stream and every call was made when
\* no other was running, the output is serialized.
C17_SequencedCalls == (NoMidFailure /\ Sequenced) => Serialized

C17_Witness ==
    /\ NoMidFailure /\ Sequenced
    /\ Cardinality(Added) = 2
    /\ Len(cd) = 2 /\ StartOf(2) > 0
    /\ \E i \in 1..Len(out) : out[i].kind = "dd" /\ out[i].file = 2

---------------------------------------------------------------------------
(* C18 *)

\* the addFile calls that have failed mid-stream
Aborted ==
    {c \in AddFileCalls : calls[c].status = "rejected" /\ calls[c].err \in MidStreamErrors}

\* what is in the output of file c
FileOut(c) == SelectSeq(out, LAMBDA b : b.file = c)

\* C18: once an addFile call has failed mid-stream, no step reads a further chunk
\* from its content source (the feed loop has stopped) and none adds a byte of
\* its file to the output (the drain loop has stopped).
C18_FailureAborts ==
    [][\A c \in Aborted :
           /\ calls'[c].src = calls[c].src
           /\ FileOut(c)' = FileOut(c)]_vars

---------------------------------------------------------------------------
(* C19 *)

\* what the caller of FairSpec passes: valid filenames, one of them long, and
\* sources that do not fail
FairInputs ==
    { [filename |-> <<"a">>, chunks |-> <<<<97>>, <<98>>>>, fails |-> FALSE],
      [filename |-> <<"a{65490}">>, chunks |-> <<>>, fails |-> FALSE] }

\* the caller of the usage comment (each call awaited; nothing after flush), with
\* a source, a compressor and a sink that do not fail
FairNext ==
    \/ /\ MayCall /\ FlushCalls = {}
       /\ \E i \in FairInputs : AddFile(i.filename, i.chunks, i.fails)
    \/ MayCall /\ FlushCalls = {} /\ Flush
    \/ AckWrite
    \/ \E c \in 1..Len(calls) : FeedChunk(c)
    \/ \E c \in 1..Len(calls) : FeedEnd(c)
    \/ \E c \in 1..Len(calls) : CompressorEmit(c)
    \/ \E c \in 1..Len(calls) : CompressorFinish(c)
    \/ \E c \in 1..Len(calls) : DrainChunk(c)
    \/ \E c \in 1..Len(calls) : DrainEnd(c)

\* the source delivers every chunk and its end, the compressor ends once it is
\* told to, the drain loop takes what the compressor has put out, and the sink
\* acknowledges every write
Fairness ==
    /\ WF_vars(AckWrite)
    /\ \A c \in 1..MaxCalls :
           /\ WF_vars(c \in CallIds /\ FeedChunk(c))
           /\ WF_vars(c \in CallIds /\ FeedEnd(c))
           /\ WF_vars(c \in CallIds /\ CompressorFinish(c))
           /\ WF_vars(c \in CallIds /\ DrainChunk(c))
           /\ WF_vars(c \in CallIds /\ DrainEnd(c))

FairSpec == Init /\ [][FairNext]_vars /\ Fairness

\* the write of call c's buffer of this kind has been acknowledged
Acked(c, kind) ==
    /\ Places(c, kind) # {}
    /\ \A k \in 1..Len(wq) : ~(wq[k].owner = c /\ wq[k].buf.kind = kind)

\* C19: with a source, a compressor and a sink that do their part, every addFile
\* call with a valid filename eventually resolves, and is resolved only when its
\* data descriptor is acknowledged and its record is in this.cd; every flush call
\* eventually resolves, and is resolved only when the central directory (if not
\* empty) and the end-of-central-directory record are acknowledged and the stream
\* is ended.
C19_EventuallyResolves ==
    /\ [](\A c \in Added :
              Acked(c, "dd") /\ \E k \in 1..Len(cd) : cd[k].file = c)
    /\ [](\A c \in FlushCalls :
              calls[c].status = "resolved" =>
                  /\ cd # <<>> => Acked(c, "cd")
                  /\ Acked(c, "eocd")
                  /\ ended)
    /\ \A c \in 1..MaxCalls :
           (c \in Started) ~> (c \in CallIds /\ calls[c].status = "resolved")
    /\ \A c \in 1..MaxCalls :
           (c \in FlushCalls) ~> (c \in CallIds /\ calls[c].status = "resolved")

====
